---- MODULE Spec2Model ----
(***************************************************************************)
(* ML-lineage-tracker: the entity model (Dataset, Run, Model) and the      *)
(* three repositories over a remote store.                                 *)
(*                                                                         *)
(* The remote store is a table per entity: an ordered sequence of rows.    *)
(* Every remote call of a repository method gets one of four responses:    *)
(*   "ok"          the call is executed, response.data holds the rows      *)
(*   "api_error"   the client raises postgrest's APIError                  *)
(*   "other_error" the client raises another exception (transport)         *)
(*   "error_field" the call returns a response with .error set, data None  *)
(* Python's None is the string None for optional strings and the empty     *)
(* sequence for an optional entity, timestamp or dict.                     *)
(***************************************************************************)
EXTENDS Integers, Sequences, FiniteSets, TLC

VARIABLES
    clock,       \* the wall clock, datetime.now(timezone.utc), in ticks
    nextId,      \* the next identifier the store assigns to an inserted row
    dsTable,     \* table "Dataset"
    runTable,    \* table "Run"
    modelTable,  \* table "Model"
    last,        \* the call the caller is looking at: op, arg, exc, msg, ret, calls
    ending       \* per concurrent caller of end_run: where its call stands

vars == <<clock, nextId, dsTable, runTable, modelTable, last, ending>>

----------------------------------------------------------------------------
(* Bounds *)

\* rows the store accepts over a behaviour (identifiers 1..MaxInserts)
MaxInserts == 2
\* length of the list given to a batch operation
MaxBatch == 2
\* the wall clock runs over 1..MaxClock, and so do caller-supplied timestamps
MaxClock == 2

----------------------------------------------------------------------------
(* Values *)

None == "None"
ErrText == "Database connection failed"

Falsy(s) == s = None \/ s = ""

RespKinds == {"ok", "api_error", "other_error", "error_field"}
Raises(k) == k \in {"api_error", "other_error"}

\* A response of execute(): data (rows), or data None with the error field set.
Response(k, rows) ==
    [data  |-> IF k = "ok" THEN rows ELSE <<>>,
     null  |-> k # "ok",
     error |-> IF k = "error_field" THEN ErrText ELSE None]

\* Python's "not response.data"
NoData(response) == response.null \/ Len(response.data) = 0

\* The exception type a raising client call surfaces with when nothing catches it.
ClientExc(k) == IF k = "api_error" THEN "APIError" ELSE "OtherError"

\* One remote call as the client sees it.
Call(verb, table, payload, filt, k) ==
    [verb |-> verb, table |-> table, payload |-> payload, filt |-> filt, resp |-> k]

\* The outcome of a repository method. ret is the sequence holding the returned
\* value, empty for None.
Returned(ret, calls) == [exc |-> "none", msg |-> <<"", "">>, ret |-> ret, calls |-> calls]
Raised(exc, prefix, detail, calls) ==
    [exc |-> exc, msg |-> <<prefix, detail>>, ret |-> <<>>, calls |-> calls]

----------------------------------------------------------------------------
(* The store behind DatabaseConnection *)

RECURSIVE MatchesAll(_, _)
MatchesAll(row, filt) ==
    IF filt = <<>> THEN TRUE
    ELSE row[Head(filt)[1]] = Head(filt)[2] /\ MatchesAll(row, Tail(filt))

\* .eq(col, value)... : the rows every filter holds of, in table order
StoreSelect(table, filt) == SelectSeq(table, LAMBDA row : MatchesAll(row, filt))

\* .delete().eq(...): the table without the matching rows
StoreDelete(table, filt) == SelectSeq(table, LAMBDA row : ~MatchesAll(row, filt))

\* .insert(record): the record becomes the last row, with the store's identifier
StoreInsert(table, idcol, id, record) ==
    Append(table, [c \in DOMAIN record \cup {idcol} |-> IF c = idcol THEN id ELSE record[c]])

\* .update(payload).eq(...): the payload's columns overwritten in the matching rows
StoreUpdate(table, payload, filt) ==
    [i \in 1..Len(table) |->
        IF MatchesAll(table[i], filt)
        THEN [c \in DOMAIN table[i] |-> IF c \in DOMAIN payload THEN payload[c] ELSE table[i][c]]
        ELSE table[i]]

----------------------------------------------------------------------------
(* core/dataset.py *)

DatasetNames == {"a", "b"}
DatasetVersions == {"1", "2"}

Dataset(name, version, source, actor, description) ==
    [name |-> name, version |-> version, source |-> source, actor |-> actor,
     description |-> description]

\* the ValueError message of construction, or "" when the fields are valid
Dataset_enforce_required_fields(d) ==
    IF Falsy(d.name) THEN "Name is required"
    ELSE IF Falsy(d.version) THEN "Version is required"
    ELSE IF Falsy(d.source) THEN "Source is required"
    ELSE IF Falsy(d.actor) THEN "Actor is required"
    ELSE ""

\* Dataset(...): the instance, or the ValueError of _enforce_required_fields
Dataset_init(name, version, source, actor, description) ==
    LET d == Dataset(name, version, source, actor, description)
        msg == Dataset_enforce_required_fields(d)
    IN  IF msg # "" THEN Raised("ValueError", msg, "", <<>>) ELSE Returned(<<d>>, <<>>)

Dataset_to_record(d) ==
    [name |-> d.name, version |-> d.version, source |-> d.source, actor |-> d.actor,
     description |-> d.description]

\* record.get("description"): None when the column is missing
Dataset_from_record(record) ==
    Dataset(record.name, record.version, record.source, record.actor,
            IF "description" \in DOMAIN record THEN record.description ELSE None)

DataSource == "s3://b/data.csv"
Alice == "alice"

\* the datasets a caller adds: every one passes construction
DatasetInputs ==
    {d \in { Dataset("a", "1", DataSource, Alice, None),
             Dataset("a", "1", DataSource, Alice, "text"),
             Dataset("b", "1", DataSource, Alice, "text"),
             Dataset("a", "2", DataSource, Alice, None) } :
        Dataset_enforce_required_fields(d) = ""}

\* the (name, version) keys a caller passes: valid, empty and None
KeyPairs == (DatasetNames \cup {"", None}) \X (DatasetVersions \cup {"", None})

SeqsUpTo(S, n) == UNION {[1..m -> S] : m \in 0..n}

\* the (name, version) pairs a caller passes to a batch operation
BatchPairs == {<<"a", "1">>, <<"b", "1">>, <<"", "2">>, <<"b", "">>}

----------------------------------------------------------------------------
(* storage/dataset_repository.py: each method is an operator from the table  *)
(* and the responses of its remote calls to its outcome and the new table.   *)

DATASET_TABLE == "Dataset"

DatasetKey(name, version) == <<<<"name", name>>, <<"version", version>>>>

WithTable(outcome, tbl) ==
    [exc |-> outcome.exc, msg |-> outcome.msg, ret |-> outcome.ret,
     calls |-> outcome.calls, tbl |-> tbl]

\* the insert as an upsert on (name, version): an existing row is overwritten
add_dataset_upsert(tbl, id, dataset, k) ==
    LET record == Dataset_to_record(dataset)
        calls == <<Call("insert", DATASET_TABLE, record, <<>>, k)>>
        key == DatasetKey(dataset.name, dataset.version)
    IN  IF k = "api_error"
        THEN WithTable(Raised("RuntimeError", "Failed to insert into Dataset: ", ErrText, calls), tbl)
        ELSE IF k = "other_error"
        THEN WithTable(Raised("OtherError", "", ErrText, calls), tbl)
        ELSE IF k = "error_field"
        THEN WithTable(Returned(<<>>, calls), tbl)
        ELSE IF StoreSelect(tbl, key) # <<>>
        THEN WithTable(Returned(<<>>, calls), StoreUpdate(tbl, record, key))
        ELSE WithTable(Returned(<<>>, calls), StoreInsert(tbl, "dataset_id", id, record))

add_dataset(tbl, id, dataset, k) ==
    LET record == Dataset_to_record(dataset)
        calls == <<Call("insert", DATASET_TABLE, record, <<>>, k)>>
    IN  IF k = "api_error"
        THEN WithTable(Raised("RuntimeError", "Failed to insert into Dataset: ", ErrText, calls), tbl)
        ELSE IF k = "other_error"
        THEN WithTable(Raised("OtherError", "", ErrText, calls), tbl)
        ELSE IF k = "error_field"
        THEN WithTable(Returned(<<>>, calls), tbl)
        ELSE WithTable(Returned(<<>>, calls), StoreInsert(tbl, "dataset_id", id, record))

\* the lookup filtered on the name alone
get_dataset_by_name(tbl, name, version, k) ==
    LET calls == <<Call("select", DATASET_TABLE, "*", DatasetKey(name, version), k)>>
        response == Response(k, StoreSelect(tbl, <<<<"name", name>>>>))
    IN  IF Raises(k)
        THEN Raised("RuntimeError", "Error retrieving dataset: ", ErrText, calls)
        ELSE IF NoData(response)
        THEN Returned(<<>>, calls)
        ELSE Returned(<<Dataset_from_record(response.data[1])>>, calls)

get_dataset(tbl, name, version, k) ==
    LET calls == <<Call("select", DATASET_TABLE, "*", DatasetKey(name, version), k)>>
        response == Response(k, StoreSelect(tbl, DatasetKey(name, version)))
    IN  IF Raises(k)
        THEN Raised("RuntimeError", "Error retrieving dataset: ", ErrText, calls)
        ELSE IF NoData(response)
        THEN Returned(<<>>, calls)
        ELSE Returned(<<Dataset_from_record(response.data[1])>>, calls)

get_dataset_id(tbl, name, version, k) ==
    LET calls == <<Call("select", DATASET_TABLE, "dataset_id", DatasetKey(name, version), k)>>
        response == Response(k, StoreSelect(tbl, DatasetKey(name, version)))
    IN  IF k = "api_error"
        THEN Raised("RuntimeError", "Error retrieving dataset ID: ", ErrText, calls)
        ELSE IF k = "other_error"
        THEN Raised("OtherError", "", ErrText, calls)
        ELSE IF NoData(response)
        THEN Returned(<<>>, calls)
        ELSE Returned(<<response.data[1].dataset_id>>, calls)

\* the Model/Run convention: nothing deleted is an error
delete_dataset_raising(tbl, name, version, k) ==
    LET calls == <<Call("delete", DATASET_TABLE, <<>>, DatasetKey(name, version), k)>>
        response == Response(k, StoreSelect(tbl, DatasetKey(name, version)))
    IN  IF Falsy(name) \/ Falsy(version)
        THEN WithTable(Raised("ValueError",
                 "Both name and version are required to delete a dataset.", "", <<>>), tbl)
        ELSE IF Raises(k)
        THEN WithTable(Raised("RuntimeError", "Error deleting dataset: ", ErrText, calls), tbl)
        ELSE IF NoData(response)
        THEN WithTable(Raised("RuntimeError", "No dataset found to delete", "", calls), tbl)
        ELSE WithTable(Returned(<<Len(response.data)>>, calls),
                       StoreDelete(tbl, DatasetKey(name, version)))

delete_dataset(tbl, name, version, k) ==
    LET calls == <<Call("delete", DATASET_TABLE, <<>>, DatasetKey(name, version), k)>>
        response == Response(k, StoreSelect(tbl, DatasetKey(name, version)))
    IN  IF Falsy(name) \/ Falsy(version)
        THEN WithTable(Raised("ValueError",
                 "Both name and version are required to delete a dataset.", "", <<>>), tbl)
        ELSE IF Raises(k)
        THEN WithTable(Raised("RuntimeError", "Error deleting dataset: ", ErrText, calls), tbl)
        ELSE WithTable(Returned(<<IF response.null THEN 0 ELSE Len(response.data)>>, calls),
                       IF k = "ok" THEN StoreDelete(tbl, DatasetKey(name, version)) ELSE tbl)

\* the j-th remote call of a batch gets response resp[j]
RECURSIVE Dataset_batch_get_loop(_, _, _, _, _)
Dataset_batch_get_loop(tbl, names_versions, resp, datasets, calls) ==
    IF names_versions = <<>>
    THEN Returned([datasets |-> datasets, count |-> Len(datasets)], calls)
    ELSE LET name == Head(names_versions)[1]
             version == Head(names_versions)[2]
         IN  IF Falsy(name) \/ Falsy(version)
             THEN Dataset_batch_get_loop(tbl, Tail(names_versions), resp, datasets, calls)
             ELSE LET r == get_dataset(tbl, name, version, resp[Len(calls) + 1])
                  IN  IF r.exc # "none"
                      THEN Raised(r.exc, r.msg[1], r.msg[2], calls \o r.calls)
                      ELSE Dataset_batch_get_loop(tbl, Tail(names_versions), resp,
                                                  datasets \o r.ret, calls \o r.calls)

\* the loop without the skip of pairs with an empty name or version
RECURSIVE Dataset_batch_get_loop_no_skip(_, _, _, _, _)
Dataset_batch_get_loop_no_skip(tbl, names_versions, resp, datasets, calls) ==
    IF names_versions = <<>>
    THEN Returned([datasets |-> datasets, count |-> Len(datasets)], calls)
    ELSE LET r == get_dataset(tbl, Head(names_versions)[1], Head(names_versions)[2],
                              resp[Len(calls) + 1])
         IN  IF r.exc # "none"
             THEN Raised(r.exc, r.msg[1], r.msg[2], calls \o r.calls)
             ELSE Dataset_batch_get_loop_no_skip(tbl, Tail(names_versions), resp,
                                                 datasets \o r.ret, calls \o r.calls)

Dataset_batch_get_no_skip(tbl, names_versions, resp) ==
    Dataset_batch_get_loop_no_skip(tbl, names_versions, resp, <<>>, <<>>)

Dataset_batch_get(tbl, names_versions, resp) ==
    Dataset_batch_get_loop(tbl, names_versions, resp, <<>>, <<>>)

RECURSIVE Dataset_batch_create_loop(_, _, _, _, _)
Dataset_batch_create_loop(tbl, id, datasets, resp, calls) ==
    IF datasets = <<>>
    THEN WithTable(Returned(<<>>, calls), tbl)
    ELSE LET r == add_dataset(tbl, id, Head(datasets), resp[Len(calls) + 1])
         IN  IF r.exc # "none"
             THEN WithTable(Raised(r.exc, r.msg[1], r.msg[2], calls \o r.calls), r.tbl)
             ELSE Dataset_batch_create_loop(r.tbl, id + (Len(r.tbl) - Len(tbl)),
                                            Tail(datasets), resp, calls \o r.calls)

\* the batch as a transaction: a failure rolls the earlier inserts back
Dataset_batch_create_atomic(tbl, id, datasets, resp) ==
    LET r == Dataset_batch_create_loop(tbl, id, datasets, resp, <<>>)
    IN  IF r.exc # "none" THEN WithTable(r, tbl) ELSE r

Dataset_batch_create(tbl, id, datasets, resp) ==
    Dataset_batch_create_loop(tbl, id, datasets, resp, <<>>)

RECURSIVE Dataset_batch_delete_loop(_, _, _, _, _)
Dataset_batch_delete_loop(tbl, name_versions, resp, total_deleted_datasets, calls) ==
    IF name_versions = <<>>
    THEN WithTable(Returned(<<total_deleted_datasets>>, calls), tbl)
    ELSE LET name == Head(name_versions)[1]
             version == Head(name_versions)[2]
         IN  IF Falsy(name) \/ Falsy(version)
             THEN Dataset_batch_delete_loop(tbl, Tail(name_versions), resp,
                                            total_deleted_datasets, calls)
             ELSE LET r == delete_dataset(tbl, name, version, resp[Len(calls) + 1])
                  IN  IF r.exc # "none"
                      THEN WithTable(Raised(r.exc, r.msg[1], r.msg[2], calls \o r.calls), r.tbl)
                      ELSE Dataset_batch_delete_loop(r.tbl, Tail(name_versions), resp,
                                                     total_deleted_datasets + r.ret[1],
                                                     calls \o r.calls)

\* the total counted in delete calls made, not in rows deleted
Dataset_batch_delete_counting_calls(tbl, name_versions, resp) ==
    LET r == Dataset_batch_delete_loop(tbl, name_versions, resp, 0, <<>>)
    IN  IF r.exc # "none" THEN r ELSE WithTable(Returned(<<Len(r.calls)>>, r.calls), r.tbl)

Dataset_batch_delete(tbl, name_versions, resp) ==
    Dataset_batch_delete_loop(tbl, name_versions, resp, 0, <<>>)

----------------------------------------------------------------------------
(* core/run.py                                                              *)
(* A timestamp is <<"datetime", t>> (a datetime object), <<"str", t>> (its   *)
(* ISO-8601 text), <<"number", t>> (epoch seconds) or <<>> (None); a dict is *)
(* <<"dict", ...>>, and <<>> where None is given for it.                     *)

NoValue == <<>>
DateTime(t) == <<"datetime", t>>
IsDateTime(v) == Len(v) = 2 /\ v[1] = "datetime"
IsStr(v) == Len(v) = 2 /\ v[1] = "str"
IsNumber(v) == Len(v) = 2 /\ v[1] = "number"
IsDict(v) == Len(v) >= 1 /\ v[1] = "dict"
EmptyDict == <<"dict">>

\* datetime.isoformat()
isoformat(v) == <<"str", v[2]>>
\* datetime.fromisoformat(text.replace('Z', '+00:00'))
fromisoformat(v) == <<"datetime", v[2]>>
\* datetime.fromtimestamp(number)
fromtimestamp(v) == <<"datetime", v[2]>>

RunFields(dataset_id, run_name, actor, parameters, start_time, code_reference, metrics, end_time) ==
    [dataset_id |-> dataset_id, run_name |-> run_name, actor |-> actor,
     parameters |-> parameters, start_time |-> start_time,
     code_reference |-> code_reference, metrics |-> metrics, end_time |-> end_time]

\* the time order checked strictly: an end_time equal to start_time rejected
Run_enforce_strict_order(r) ==
    IF Falsy(r.dataset_id) THEN "Dataset is required"
    ELSE IF Falsy(r.actor) THEN "Actor is required"
    ELSE IF Falsy(r.run_name) THEN "Run name is required"
    ELSE IF ~IsDict(r.parameters) THEN "Parameters are required"
    ELSE IF r.start_time = NoValue THEN "Start time is required"
    ELSE IF r.end_time # NoValue /\ r.end_time[2] <= r.start_time[2]
         THEN "End time must be greater than start time"
    ELSE ""

\* the ValueError message of construction, or "" when the fields are valid
Run_enforce_required_fields(r) ==
    IF Falsy(r.dataset_id) THEN "Dataset is required"
    ELSE IF Falsy(r.actor) THEN "Actor is required"
    ELSE IF Falsy(r.run_name) THEN "Run name is required"
    ELSE IF ~IsDict(r.parameters) THEN "Parameters are required"
    ELSE IF r.start_time = NoValue THEN "Start time is required"
    ELSE IF r.end_time # NoValue /\ r.end_time[2] < r.start_time[2]
         THEN "End time must be greater than start time"
    ELSE ""

\* Run.__init__: metrics defaults to the empty dict
Run(dataset_id, run_name, actor, parameters, start_time, code_reference, metrics, end_time) ==
    RunFields(dataset_id, run_name, actor, parameters, start_time, code_reference,
              IF metrics = NoValue THEN EmptyDict ELSE metrics, end_time)

\* Run(...): the instance, or the ValueError of _enforce_required_fields
Run_init(dataset_id, run_name, actor, parameters, start_time, code_reference, metrics, end_time) ==
    LET r == Run(dataset_id, run_name, actor, parameters, start_time, code_reference, metrics, end_time)
        msg == Run_enforce_required_fields(r)
    IN  IF msg # "" THEN Raised("ValueError", msg, "", <<>>) ELSE Returned(<<r>>, <<>>)

Run_to_record(r) ==
    [dataset_id |-> r.dataset_id,
     name |-> r.run_name,
     actor |-> r.actor,
     parameters |-> r.parameters,
     code_reference |-> r.code_reference,
     metrics |-> r.metrics,
     start_time |-> IF IsDateTime(r.start_time) THEN isoformat(r.start_time) ELSE r.start_time,
     end_time |-> IF r.end_time # NoValue /\ IsDateTime(r.end_time)
                  THEN isoformat(r.end_time) ELSE r.end_time]

Run_parse_time(v) ==
    IF IsNumber(v) THEN fromtimestamp(v)
    ELSE IF IsStr(v) THEN fromisoformat(v)
    ELSE v

RecordGet(record, col, default) == IF col \in DOMAIN record THEN record[col] ELSE default

\* the fields from_record hands to the constructor
Run_from_record(record) ==
    Run(record.dataset_id,
        IF ~Falsy(RecordGet(record, "name", None)) THEN record.name
        ELSE RecordGet(record, "run_name", None),
        record.actor,
        record.parameters,
        Run_parse_time(record.start_time),
        RecordGet(record, "code_reference", None),
        RecordGet(record, "metrics", NoValue),
        IF RecordGet(record, "end_time", NoValue) # NoValue
        THEN Run_parse_time(record.end_time) ELSE NoValue)

RunNames == {"r1", "r2"}
Params == <<"dict", "learning_rate">>
Metrics == <<"dict", "accuracy">>

\* the timestamps a caller supplies
CallerTimes == {DateTime(t) : t \in 1..MaxClock}

\* the runs a caller constructs: r1 with every optional field, r2 with none
RunInputs ==
    {r \in { Run("dataset_1", "r1", Alice, Params, st, "abc123", Metrics, et) :
                st \in CallerTimes, et \in CallerTimes \cup {NoValue} }
            \cup { Run("dataset_2", "r2", "bob", EmptyDict, DateTime(1), None, NoValue, NoValue) } :
        Run_enforce_required_fields(r) = ""}

\* the run names a caller passes: stored or not, empty and None
RunKeys == RunNames \cup {"", None}

----------------------------------------------------------------------------
(* storage/run_repository.py *)

RUN_TABLE == "Run"

RunKey(run_name) == <<<<"name", run_name>>>>

\* the record inserted as serialized, start_time not overwritten
add_run_keeps_start(tbl, id, run, now, k) ==
    LET record == Run_to_record(run)
        calls == <<Call("insert", RUN_TABLE, record, <<>>, k)>>
    IN  IF k = "api_error"
        THEN WithTable(Raised("RuntimeError", "Failed to add run: ",
                              "Failed to insert into Run: Database connection failed", calls), tbl)
        ELSE IF k = "other_error"
        THEN WithTable(Raised("RuntimeError", "Failed to add run: ", ErrText, calls), tbl)
        ELSE IF k = "error_field"
        THEN WithTable(Returned(<<>>, calls), tbl)
        ELSE WithTable(Returned(<<>>, calls), StoreInsert(tbl, "run_id", id, record))

add_run(tbl, id, run, now, k) ==
    LET record == [Run_to_record(run) EXCEPT !.start_time = isoformat(DateTime(now))]
        calls == <<Call("insert", RUN_TABLE, record, <<>>, k)>>
    IN  IF k = "api_error"
        THEN WithTable(Raised("RuntimeError", "Failed to add run: ",
                              "Failed to insert into Run: Database connection failed", calls), tbl)
        ELSE IF k = "other_error"
        THEN WithTable(Raised("RuntimeError", "Failed to add run: ", ErrText, calls), tbl)
        ELSE IF k = "error_field"
        THEN WithTable(Returned(<<>>, calls), tbl)
        ELSE WithTable(Returned(<<>>, calls), StoreInsert(tbl, "run_id", id, record))

get_run(tbl, run_name, k) ==
    LET calls == <<Call("select", RUN_TABLE, "*", RunKey(run_name), k)>>
        response == Response(k, StoreSelect(tbl, RunKey(run_name)))
    IN  IF Falsy(run_name)
        THEN Raised("ValueError", "Run name is required to retrieve a run", "", <<>>)
        ELSE IF Raises(k)
        THEN Raised("RuntimeError", "Error retrieving run: ", ErrText, calls)
        ELSE IF NoData(response)
        THEN Returned(<<>>, calls)
        ELSE LET run == Run_from_record(response.data[1])
             IN  IF Run_enforce_required_fields(run) # ""
                 THEN Raised("ValueError", Run_enforce_required_fields(run), "", calls)
                 ELSE Returned(<<run>>, calls)

get_run_id(tbl, name, k) ==
    LET calls == <<Call("select", RUN_TABLE, "run_id", RunKey(name), k)>>
        response == Response(k, StoreSelect(tbl, RunKey(name)))
    IN  IF Falsy(name)
        THEN Raised("ValueError", "Run name is required to retrieve a run ID", "", <<>>)
        ELSE IF k = "api_error"
        THEN Raised("RuntimeError", "Error retrieving run ID: ", ErrText, calls)
        ELSE IF k = "other_error"
        THEN Raised("OtherError", "", ErrText, calls)
        ELSE IF NoData(response)
        THEN Returned(<<>>, calls)
        ELSE Returned(<<response.data[1].run_id>>, calls)

\* the update as a full-record overwrite with the fetched run, end_time set
end_run_full_overwrite(tbl, run_name, now, k1, k2) ==
    LET fetched == get_run(tbl, run_name, k1)
        payload == IF fetched.exc = "none" /\ fetched.ret # <<>>
                   THEN [Run_to_record(fetched.ret[1]) EXCEPT !.end_time = isoformat(DateTime(now))]
                   ELSE [end_time |-> isoformat(DateTime(now))]
        calls == fetched.calls \o <<Call("update", RUN_TABLE, payload, RunKey(run_name), k2)>>
    IN  IF Falsy(run_name)
        THEN WithTable(Raised("ValueError", "Run name is required to end a run", "", <<>>), tbl)
        ELSE IF fetched.exc # "none"
        THEN WithTable(fetched, tbl)
        ELSE IF fetched.ret = <<>>
        THEN WithTable(Raised("RuntimeError", "Run not found", "", fetched.calls), tbl)
        ELSE IF fetched.ret[1].end_time # NoValue
        THEN WithTable(Raised("ValueError", "Run has already been ended", "", fetched.calls), tbl)
        ELSE IF Raises(k2)
        THEN WithTable(Raised(ClientExc(k2), "", ErrText, calls), tbl)
        ELSE WithTable(Returned(<<>>, calls),
                       IF k2 = "ok" THEN StoreUpdate(tbl, payload, RunKey(run_name)) ELSE tbl)

\* the update without the check that a row was affected
update_run_unchecked(tbl, run, k) ==
    LET record == Run_to_record(run)
        run_name == RecordGet(record, "name", None)
        calls == <<Call("update", RUN_TABLE, record, RunKey(run_name), k)>>
    IN  IF Falsy(run_name)
        THEN WithTable(Raised("ValueError", "Run name is required to update a run", "", <<>>), tbl)
        ELSE IF Raises(k)
        THEN WithTable(Raised("RuntimeError", "Failed to update run: ", ErrText, calls), tbl)
        ELSE WithTable(Returned(<<>>, calls),
                       IF k = "ok" THEN StoreUpdate(tbl, record, RunKey(run_name)) ELSE tbl)

update_run(tbl, run, k) ==
    LET record == Run_to_record(run)
        run_name == RecordGet(record, "name", None)
        calls == <<Call("update", RUN_TABLE, record, RunKey(run_name), k)>>
        response == Response(k, StoreSelect(tbl, RunKey(run_name)))
    IN  IF Falsy(run_name)
        THEN WithTable(Raised("ValueError", "Run name is required to update a run", "", <<>>), tbl)
        ELSE IF Raises(k)
        THEN WithTable(Raised("RuntimeError", "Failed to update run: ", ErrText, calls), tbl)
        ELSE IF NoData(response)
        THEN WithTable(Raised("RuntimeError", "No run found to update", "", calls), tbl)
        ELSE WithTable(Returned(<<>>, calls), StoreUpdate(tbl, record, RunKey(run_name)))

\* the update issued without the check that the fetch found a run
end_run_no_found_check(tbl, run_name, now, k1, k2) ==
    LET fetched == get_run(tbl, run_name, k1)
        payload == [end_time |-> isoformat(DateTime(now))]
        calls == fetched.calls \o <<Call("update", RUN_TABLE, payload, RunKey(run_name), k2)>>
    IN  IF Falsy(run_name)
        THEN WithTable(Raised("ValueError", "Run name is required to end a run", "", <<>>), tbl)
        ELSE IF fetched.exc # "none"
        THEN WithTable(fetched, tbl)
        ELSE IF fetched.ret # <<>> /\ fetched.ret[1].end_time # NoValue
        THEN WithTable(Raised("ValueError", "Run has already been ended", "", fetched.calls), tbl)
        ELSE IF Raises(k2)
        THEN WithTable(Raised(ClientExc(k2), "", ErrText, calls), tbl)
        ELSE WithTable(Returned(<<>>, calls),
                       IF k2 = "ok" THEN StoreUpdate(tbl, payload, RunKey(run_name)) ELSE tbl)

\* k1 answers the fetch (get_run), k2 the update
end_run(tbl, run_name, now, k1, k2) ==
    LET fetched == get_run(tbl, run_name, k1)
        payload == [end_time |-> isoformat(DateTime(now))]
        calls == fetched.calls \o <<Call("update", RUN_TABLE, payload, RunKey(run_name), k2)>>
    IN  IF Falsy(run_name)
        THEN WithTable(Raised("ValueError", "Run name is required to end a run", "", <<>>), tbl)
        ELSE IF fetched.exc # "none"
        THEN WithTable(fetched, tbl)
        ELSE IF fetched.ret = <<>>
        THEN WithTable(Raised("RuntimeError", "Run not found", "", fetched.calls), tbl)
        ELSE IF fetched.ret[1].end_time # NoValue
        THEN WithTable(Raised("ValueError", "Run has already been ended", "", fetched.calls), tbl)
        ELSE IF Raises(k2)
        THEN WithTable(Raised(ClientExc(k2), "", ErrText, calls), tbl)
        ELSE WithTable(Returned(<<>>, calls),
                       IF k2 = "ok" THEN StoreUpdate(tbl, payload, RunKey(run_name)) ELSE tbl)

\* end_run up to the point where the run was fetched and found open: the
\* exception it ends with, or a return that lets the call go on to its update
end_run_fetch_unchecked(tbl, run_name, k1) ==
    LET fetched == get_run(tbl, run_name, k1)
    IN  IF Falsy(run_name)
        THEN Raised("ValueError", "Run name is required to end a run", "", <<>>)
        ELSE IF fetched.exc # "none"
        THEN fetched
        ELSE IF fetched.ret = <<>>
        THEN Raised("RuntimeError", "Run not found", "", fetched.calls)
        ELSE Returned(<<>>, fetched.calls)

end_run_fetch(tbl, run_name, k1) ==
    LET fetched == get_run(tbl, run_name, k1)
    IN  IF Falsy(run_name)
        THEN Raised("ValueError", "Run name is required to end a run", "", <<>>)
        ELSE IF fetched.exc # "none"
        THEN fetched
        ELSE IF fetched.ret = <<>>
        THEN Raised("RuntimeError", "Run not found", "", fetched.calls)
        ELSE IF fetched.ret[1].end_time # NoValue
        THEN Raised("ValueError", "Run has already been ended", "", fetched.calls)
        ELSE Returned(<<>>, fetched.calls)

\* end_run from there: now() read, the update of end_time issued
end_run_write(tbl, run_name, now, k2) ==
    LET payload == [end_time |-> isoformat(DateTime(now))]
        calls == <<Call("update", RUN_TABLE, payload, RunKey(run_name), k2)>>
    IN  IF Raises(k2)
        THEN WithTable(Raised(ClientExc(k2), "", ErrText, calls), tbl)
        ELSE WithTable(Returned(<<>>, calls),
                       IF k2 = "ok" THEN StoreUpdate(tbl, payload, RunKey(run_name)) ELSE tbl)

delete_run(tbl, run_name, k) ==
    LET calls == <<Call("delete", RUN_TABLE, <<>>, RunKey(run_name), k)>>
        response == Response(k, StoreSelect(tbl, RunKey(run_name)))
    IN  IF Falsy(run_name)
        THEN WithTable(Raised("ValueError", "Run name is required to delete a run", "", <<>>), tbl)
        ELSE IF Raises(k)
        THEN WithTable(Raised("RuntimeError", "Error deleting run: ", ErrText, calls), tbl)
        ELSE IF NoData(response)
        THEN WithTable(Raised("RuntimeError", "No run found to delete", "", calls), tbl)
        ELSE WithTable(Returned(<<>>, calls), StoreDelete(tbl, RunKey(run_name)))

\* batch_get returns the pair (collected_runs, 0) for an empty list and the bare
\* list collected_runs otherwise.
TupleResult(runs, count) == [kind |-> "tuple", runs |-> runs, count |-> count]
ListResult(runs) == [kind |-> "list", runs |-> runs]

\* the j-th remote call of a batch gets response resp[j]; only RuntimeError is
\* caught: every other exception of get_run ends the batch
RECURSIVE Run_batch_get_loop(_, _, _, _, _)
Run_batch_get_loop(tbl, run_names, resp, collected_runs, calls) ==
    IF run_names = <<>>
    THEN Returned(<<ListResult(collected_runs)>>, calls)
    ELSE LET r == get_run(tbl, Head(run_names), resp[Len(calls) + 1])
         IN  IF r.exc = "RuntimeError"
             THEN Run_batch_get_loop(tbl, Tail(run_names), resp, collected_runs,
                                     calls \o r.calls)
             ELSE IF r.exc # "none"
             THEN Raised(r.exc, r.msg[1], r.msg[2], calls \o r.calls)
             ELSE Run_batch_get_loop(tbl, Tail(run_names), resp,
                                     collected_runs \o r.ret, calls \o r.calls)

Run_batch_get(tbl, run_names, resp) ==
    IF run_names = <<>>
    THEN Returned(<<TupleResult(<<>>, 0)>>, <<>>)
    ELSE Run_batch_get_loop(tbl, run_names, resp, <<>>, <<>>)

\* the runs a caller passes to batch_create
RunBatchInputs == {r \in RunInputs : r.end_time = NoValue /\ r.start_time = DateTime(1)}

RECURSIVE Run_batch_create_loop(_, _, _, _, _, _)
Run_batch_create_loop(tbl, id, runs, now, resp, calls) ==
    IF runs = <<>>
    THEN WithTable(Returned(<<>>, calls), tbl)
    ELSE IF Falsy(Head(runs).run_name)
    THEN Run_batch_create_loop(tbl, id, Tail(runs), now, resp, calls)
    ELSE LET r == add_run(tbl, id, Head(runs), now, resp[Len(calls) + 1])
         IN  IF r.exc # "none"
             THEN WithTable(Raised(r.exc, r.msg[1], r.msg[2], calls \o r.calls), r.tbl)
             ELSE Run_batch_create_loop(r.tbl, id + (Len(r.tbl) - Len(tbl)), Tail(runs),
                                        now, resp, calls \o r.calls)

Run_batch_create(tbl, id, runs, now, resp) ==
    Run_batch_create_loop(tbl, id, runs, now, resp, <<>>)

----------------------------------------------------------------------------
(* core/model.py *)

ALLOWED_STAGES == {"registered", "staging", "production", "archived"}

Model(artifact_uri, model_name, associated_run_id, lifecycle_stage) ==
    [artifact_uri |-> artifact_uri, model_name |-> model_name,
     associated_run_id |-> associated_run_id, lifecycle_stage |-> lifecycle_stage]

\* the stage checked for presence only, not against ALLOWED_STAGES
Model_enforce_nonempty_only(m) ==
    IF Falsy(m.artifact_uri) THEN "Artifact URI is required"
    ELSE IF Falsy(m.associated_run_id) THEN "Associated run is required"
    ELSE IF Falsy(m.model_name) THEN "Model name is required"
    ELSE IF Falsy(m.lifecycle_stage) THEN "Invalid lifecycle stage"
    ELSE ""

\* the ValueError message of construction, or "" when the fields are valid
Model_enforce_required_fields(m) ==
    IF Falsy(m.artifact_uri) THEN "Artifact URI is required"
    ELSE IF Falsy(m.associated_run_id) THEN "Associated run is required"
    ELSE IF Falsy(m.model_name) THEN "Model name is required"
    ELSE IF Falsy(m.lifecycle_stage) \/ m.lifecycle_stage \notin ALLOWED_STAGES
         THEN "Invalid lifecycle stage"
    ELSE ""

\* Model(...): the instance, or the ValueError of _enforce_required_fields
Model_init(artifact_uri, model_name, associated_run_id, lifecycle_stage) ==
    LET m == Model(artifact_uri, model_name, associated_run_id, lifecycle_stage)
        msg == Model_enforce_required_fields(m)
    IN  IF msg # "" THEN Raised("ValueError", msg, "", <<>>) ELSE Returned(<<m>>, <<>>)

\* Model.from_record: the class defines no such attribute
Model_from_record(record) ==
    Raised("AttributeError", "type object 'Model' has no attribute 'from_record'", "", <<>>)

Model_to_record(m) ==
    [artifact_uri |-> m.artifact_uri, model_name |-> m.model_name,
     associated_run_id |-> m.associated_run_id, lifecycle_stage |-> m.lifecycle_stage]

ModelNames == {"m1", "m2"}

\* the models a caller constructs
ModelInputs ==
    {m \in { Model("s3://b/model.pkl", n, "run_1", st) :
                n \in ModelNames, st \in ALLOWED_STAGES } :
        Model_enforce_required_fields(m) = ""}

ModelKeys == ModelNames \cup {"", None}

\* a truthy value that is not a string (the integer 123)
NotAString == "<123>"
\* isinstance(name, str)
IsString(name) == name \notin {None, NotAString}

\* the entries a caller passes in a list of model names
ModelBatchNames == ModelNames \cup {"", None, NotAString}

----------------------------------------------------------------------------
(* storage/model_repository.py *)

MODEL_TABLE == "Model"

ModelKey(model_name) == <<<<"model_name", model_name>>>>

\* The except clause names APIError, which the module never imports: whatever
\* DatabaseConnection.insert raises, evaluating the clause raises NameError.
add_model(tbl, id, model, k) ==
    LET record == Model_to_record(model)
        calls == <<Call("insert", MODEL_TABLE, record, <<>>, k)>>
    IN  IF Raises(k)
        THEN WithTable(Raised("NameError", "name 'APIError' is not defined", "", calls), tbl)
        ELSE IF k = "error_field"
        THEN WithTable(Returned(<<>>, calls), tbl)
        ELSE WithTable(Returned(<<>>, calls), StoreInsert(tbl, "model_id", id, record))

\* Model has no from_record: the call on a fetched row raises AttributeError.
get_model(tbl, model_name, k) ==
    LET calls == <<Call("select", MODEL_TABLE, "*", ModelKey(model_name), k)>>
        response == Response(k, StoreSelect(tbl, ModelKey(model_name)))
    IN  IF Falsy(model_name)
        THEN Raised("ValueError", "Model name is required", "", <<>>)
        ELSE IF Raises(k)
        THEN Raised("RuntimeError", "Failed to retrieve model: ", ErrText, calls)
        ELSE IF NoData(response)
        THEN Returned(<<>>, calls)
        ELSE Raised("AttributeError",
                    "type object 'Model' has no attribute 'from_record'", "", calls)

\* the lifecycle as a state machine: a stage is never replaced by an earlier one
StageRank(stage) ==
    CASE stage = "registered" -> 1 [] stage = "staging" -> 2
      [] stage = "production" -> 3 [] stage = "archived" -> 4 [] OTHER -> 0

update_model_forward_only(tbl, model, k) ==
    LET record == Model_to_record(model)
        model_name == model.model_name
        calls == <<Call("update", MODEL_TABLE, record, ModelKey(model_name), k)>>
        response == Response(k, StoreSelect(tbl, ModelKey(model_name)))
    IN  IF Falsy(model.model_name)
        THEN WithTable(Raised("ValueError", "Model is required for update", "", <<>>), tbl)
        ELSE IF Raises(k)
        THEN WithTable(Raised("RuntimeError", "Failed to update model: ", ErrText, calls), tbl)
        ELSE IF NoData(response)
        THEN WithTable(Raised("RuntimeError", "No model found to update", "", calls), tbl)
        ELSE IF StageRank(response.data[1].lifecycle_stage) > StageRank(model.lifecycle_stage)
        THEN WithTable(Raised("ValueError", "Invalid lifecycle transition", "", calls), tbl)
        ELSE WithTable(Returned(<<>>, calls), StoreUpdate(tbl, record, ModelKey(model_name)))

update_model(tbl, model, k) ==
    LET record == Model_to_record(model)
        model_name == model.model_name
        calls == <<Call("update", MODEL_TABLE, record, ModelKey(model_name), k)>>
        response == Response(k, StoreSelect(tbl, ModelKey(model_name)))
    IN  IF Falsy(model.model_name)
        THEN WithTable(Raised("ValueError", "Model is required for update", "", <<>>), tbl)
        ELSE IF Raises(k)
        THEN WithTable(Raised("RuntimeError", "Failed to update model: ", ErrText, calls), tbl)
        ELSE IF NoData(response)
        THEN WithTable(Raised("RuntimeError", "No model found to update", "", calls), tbl)
        ELSE WithTable(Returned(<<>>, calls), StoreUpdate(tbl, record, ModelKey(model_name)))

\* the Dataset convention: nothing deleted is not an error
delete_model_silent(tbl, model_name, k) ==
    LET calls == <<Call("delete", MODEL_TABLE, <<>>, ModelKey(model_name), k)>>
    IN  IF Falsy(model_name)
        THEN WithTable(Raised("ValueError", "Model name is required for deletion", "", <<>>), tbl)
        ELSE IF Raises(k)
        THEN WithTable(Raised("RuntimeError", "Failed to delete model: ", ErrText, calls), tbl)
        ELSE WithTable(Returned(<<>>, calls),
                       IF k = "ok" THEN StoreDelete(tbl, ModelKey(model_name)) ELSE tbl)

delete_model(tbl, model_name, k) ==
    LET calls == <<Call("delete", MODEL_TABLE, <<>>, ModelKey(model_name), k)>>
        response == Response(k, StoreSelect(tbl, ModelKey(model_name)))
    IN  IF Falsy(model_name)
        THEN WithTable(Raised("ValueError", "Model name is required for deletion", "", <<>>), tbl)
        ELSE IF Raises(k)
        THEN WithTable(Raised("RuntimeError", "Failed to delete model: ", ErrText, calls), tbl)
        ELSE IF NoData(response)
        THEN WithTable(Raised("RuntimeError", "No model found to delete", "", calls), tbl)
        ELSE WithTable(Returned(<<>>, calls), StoreDelete(tbl, ModelKey(model_name)))

\* the comprehension iterates response.data: None is not iterable
list_models(tbl, k) ==
    LET calls == <<Call("select", MODEL_TABLE, "*", <<>>, k)>>
        response == Response(k, StoreSelect(tbl, <<>>))
    IN  IF Raises(k)
        THEN Raised("RuntimeError", "Failed to list models: ", ErrText, calls)
        ELSE IF response.null
        THEN Raised("TypeError", "'NoneType' object is not iterable", "", calls)
        ELSE IF Len(response.data) = 0
        THEN Returned(<< <<>> >>, calls)
        ELSE Raised("AttributeError",
                    "type object 'Model' has no attribute 'from_record'", "", calls)

\* the j-th remote call of a batch gets response resp[j]
RECURSIVE Model_batch_get_loop(_, _, _, _, _)
Model_batch_get_loop(tbl, model_names, resp, models, calls) ==
    IF model_names = <<>>
    THEN Returned(<<models>>, calls)
    ELSE LET name == Head(model_names)
         IN  IF Falsy(name)
             THEN Model_batch_get_loop(tbl, Tail(model_names), resp, models, calls)
             ELSE IF ~IsString(name)
             THEN Raised("ValueError", "Model names must be strings", "", calls)
             ELSE LET r == get_model(tbl, name, resp[Len(calls) + 1])
                  IN  IF r.exc # "none"
                      THEN Raised(r.exc, r.msg[1], r.msg[2], calls \o r.calls)
                      ELSE Model_batch_get_loop(tbl, Tail(model_names), resp,
                                                models \o r.ret, calls \o r.calls)

Model_batch_get(tbl, model_names, resp) ==
    Model_batch_get_loop(tbl, model_names, resp, <<>>, <<>>)

----------------------------------------------------------------------------
(* The state machine *)

Done(op, arg, r) ==
    [op |-> op, arg |-> arg, exc |-> r.exc, msg |-> r.msg, ret |-> r.ret, calls |-> r.calls]

\* the callers that call end_run at the same time
Callers == {1, 2}

\* a caller that has not called end_run
NotEnding == [phase |-> "none", run_name |-> "", exc |-> "none", msg |-> <<"", "">>, calls |-> <<>>]

\* the caller holds no result: it is about to make its next call
Idle == Done("idle", <<>>, Returned(<<>>, <<>>))

Init ==
    /\ clock = 1
    /\ nextId = 1
    /\ dsTable = <<>>
    /\ runTable = <<>>
    /\ modelTable = <<>>
    /\ last = Idle
    /\ ending = [c \in Callers |-> NotEnding]

\* The calls are sequential: the caller takes the outcome of one call (a value or
\* an exception) before it makes the next.
Continue ==
    /\ last.op # "idle"
    /\ last' = Idle
    /\ UNCHANGED <<ending, clock, nextId, dsTable, runTable, modelTable>>

AddDataset ==
    /\ last.op = "idle"
    /\ \E d \in DatasetInputs, k \in RespKinds :
        /\ nextId <= MaxInserts
        /\ LET r == add_dataset(dsTable, nextId, d, k)
           IN  /\ dsTable' = r.tbl
               /\ nextId' = nextId + (Len(r.tbl) - Len(dsTable))
               /\ last' = Done("add_dataset", d, r)
        /\ UNCHANGED <<ending, clock, runTable, modelTable>>

\* the lookup taking the last matching row, not the first
GetDatasetLast ==
    /\ last.op = "idle"
    /\ \E key \in KeyPairs, k \in RespKinds :
        LET rows == StoreSelect(dsTable, DatasetKey(key[1], key[2]))
            r == get_dataset(dsTable, key[1], key[2], k)
        IN  /\ last' = Done("get_dataset", key,
                            IF r.exc = "none" /\ r.ret # <<>>
                            THEN [r EXCEPT !.ret = <<Dataset_from_record(rows[Len(rows)])>>]
                            ELSE r)
            /\ UNCHANGED <<ending, clock, nextId, dsTable, runTable, modelTable>>

GetDataset ==
    /\ last.op = "idle"
    /\ \E key \in KeyPairs, k \in RespKinds :
        /\ last' = Done("get_dataset", key, get_dataset(dsTable, key[1], key[2], k))
        /\ UNCHANGED <<ending, clock, nextId, dsTable, runTable, modelTable>>

GetDatasetId ==
    /\ last.op = "idle"
    /\ \E key \in KeyPairs, k \in RespKinds :
        /\ last' = Done("get_dataset_id", key, get_dataset_id(dsTable, key[1], key[2], k))
        /\ UNCHANGED <<ending, clock, nextId, dsTable, runTable, modelTable>>

\* the text a Run carries in dataset_id to name the Dataset row with identifier id
DatasetRef(id) == IF id = 1 THEN "dataset_1" ELSE IF id = 2 THEN "dataset_2" ELSE "dataset_n"

\* the delete cascading to the runs that reference the deleted datasets
DeleteDatasetCascade ==
    /\ last.op = "idle"
    /\ \E key \in KeyPairs, k \in RespKinds :
        /\ LET r == delete_dataset(dsTable, key[1], key[2], k)
               gone == {DatasetRef(dsTable[i].dataset_id) : i \in {j \in 1..Len(dsTable) :
                           \A n \in 1..Len(r.tbl) : r.tbl[n] # dsTable[j]}}
           IN  /\ dsTable' = r.tbl
               /\ runTable' = SelectSeq(runTable, LAMBDA row : row.dataset_id \notin gone)
               /\ last' = Done("delete_dataset", key, r)
        /\ UNCHANGED <<ending, clock, nextId, modelTable>>

DeleteDataset ==
    /\ last.op = "idle"
    /\ \E key \in KeyPairs, k \in RespKinds :
        /\ LET r == delete_dataset(dsTable, key[1], key[2], k)
           IN  /\ dsTable' = r.tbl
               /\ last' = Done("delete_dataset", key, r)
        /\ UNCHANGED <<ending, clock, nextId, runTable, modelTable>>

DatasetBatchGet ==
    /\ last.op = "idle"
    /\ \E pairs \in SeqsUpTo(BatchPairs, MaxBatch) : \E resp \in [1..Len(pairs) -> RespKinds] :
        /\ last' = Done("Dataset_batch_get", pairs, Dataset_batch_get(dsTable, pairs, resp))
        /\ UNCHANGED <<ending, clock, nextId, dsTable, runTable, modelTable>>

DatasetBatchCreate ==
    /\ last.op = "idle"
    /\ \E ds \in SeqsUpTo(DatasetInputs, MaxBatch) : \E resp \in [1..Len(ds) -> RespKinds] :
        /\ nextId + Len(ds) <= MaxInserts + 1
        /\ LET r == Dataset_batch_create(dsTable, nextId, ds, resp)
           IN  /\ dsTable' = r.tbl
               /\ nextId' = nextId + (Len(r.tbl) - Len(dsTable))
               /\ last' = Done("Dataset_batch_create", ds, r)
        /\ UNCHANGED <<ending, clock, runTable, modelTable>>

DatasetBatchDelete ==
    /\ last.op = "idle"
    /\ \E pairs \in SeqsUpTo(BatchPairs, MaxBatch) : \E resp \in [1..Len(pairs) -> RespKinds] :
        /\ LET r == Dataset_batch_delete(dsTable, pairs, resp)
           IN  /\ dsTable' = r.tbl
               /\ last' = Done("Dataset_batch_delete", pairs, r)
        /\ UNCHANGED <<ending, clock, nextId, runTable, modelTable>>

\* Time passes between calls; the wall clock never runs backwards.
Tick ==
    /\ last.op = "idle"
    /\ clock < MaxClock
    /\ clock' = clock + 1
    /\ UNCHANGED <<ending, nextId, dsTable, runTable, modelTable, last>>

AddRun ==
    /\ last.op = "idle"
    /\ \E run \in RunInputs, k \in RespKinds :
        /\ nextId <= MaxInserts
        /\ LET r == add_run(runTable, nextId, run, clock, k)
           IN  /\ runTable' = r.tbl
               /\ nextId' = nextId + (Len(r.tbl) - Len(runTable))
               /\ last' = Done("add_run", run, r)
        /\ UNCHANGED <<ending, clock, dsTable, modelTable>>

GetRun ==
    /\ last.op = "idle"
    /\ \E run_name \in RunKeys, k \in RespKinds :
        /\ last' = Done("get_run", run_name, get_run(runTable, run_name, k))
        /\ UNCHANGED <<ending, clock, nextId, dsTable, runTable, modelTable>>

GetRunId ==
    /\ last.op = "idle"
    /\ \E name \in RunKeys, k \in RespKinds :
        /\ last' = Done("get_run_id", name, get_run_id(runTable, name, k))
        /\ UNCHANGED <<ending, clock, nextId, dsTable, runTable, modelTable>>

UpdateRun ==
    /\ last.op = "idle"
    /\ \E run \in RunInputs, k \in RespKinds :
        /\ LET r == update_run(runTable, run, k)
           IN  /\ runTable' = r.tbl
               /\ last' = Done("update_run", run, r)
        /\ UNCHANGED <<ending, clock, nextId, dsTable, modelTable>>

\* end_run writing the fetched run's full record back
EndRunFullOverwrite ==
    /\ last.op = "idle"
    /\ \E run_name \in RunKeys, k1 \in RespKinds, k2 \in RespKinds :
        /\ LET r == end_run_full_overwrite(runTable, run_name, clock, k1, k2)
           IN  /\ runTable' = r.tbl
               /\ last' = Done("end_run", run_name, r)
        /\ UNCHANGED <<ending, clock, nextId, dsTable, modelTable>>

EndRun ==
    /\ last.op = "idle"
    /\ \E run_name \in RunKeys, k1 \in RespKinds, k2 \in RespKinds :
        /\ LET r == end_run(runTable, run_name, clock, k1, k2)
           IN  /\ runTable' = r.tbl
               /\ last' = Done("end_run", run_name, r)
        /\ UNCHANGED <<ending, clock, nextId, dsTable, modelTable>>

DeleteRun ==
    /\ last.op = "idle"
    /\ \E run_name \in RunKeys, k \in RespKinds :
        /\ LET r == delete_run(runTable, run_name, k)
           IN  /\ runTable' = r.tbl
               /\ last' = Done("delete_run", run_name, r)
        /\ UNCHANGED <<ending, clock, nextId, dsTable, modelTable>>

RunBatchGet ==
    /\ last.op = "idle"
    /\ \E names \in SeqsUpTo(RunKeys, MaxBatch) : \E resp \in [1..Len(names) -> RespKinds] :
        /\ last' = Done("Run_batch_get", names, Run_batch_get(runTable, names, resp))
        /\ UNCHANGED <<ending, clock, nextId, dsTable, runTable, modelTable>>

RunBatchCreate ==
    /\ last.op = "idle"
    /\ \E runs \in SeqsUpTo(RunBatchInputs, MaxBatch) : \E resp \in [1..Len(runs) -> RespKinds] :
        /\ nextId + Len(runs) <= MaxInserts + 1
        /\ LET r == Run_batch_create(runTable, nextId, runs, clock, resp)
           IN  /\ runTable' = r.tbl
               /\ nextId' = nextId + (Len(r.tbl) - Len(runTable))
               /\ last' = Done("Run_batch_create", runs, r)
        /\ UNCHANGED <<ending, clock, dsTable, modelTable>>

AddModel ==
    /\ last.op = "idle"
    /\ \E model \in ModelInputs, k \in RespKinds :
        /\ nextId <= MaxInserts
        /\ LET r == add_model(modelTable, nextId, model, k)
           IN  /\ modelTable' = r.tbl
               /\ nextId' = nextId + (Len(r.tbl) - Len(modelTable))
               /\ last' = Done("add_model", model, r)
        /\ UNCHANGED <<ending, clock, dsTable, runTable>>

GetModel ==
    /\ last.op = "idle"
    /\ \E model_name \in ModelKeys, k \in RespKinds :
        /\ last' = Done("get_model", model_name, get_model(modelTable, model_name, k))
        /\ UNCHANGED <<ending, clock, nextId, dsTable, runTable, modelTable>>

UpdateModel ==
    /\ last.op = "idle"
    /\ \E model \in ModelInputs, k \in RespKinds :
        /\ LET r == update_model(modelTable, model, k)
           IN  /\ modelTable' = r.tbl
               /\ last' = Done("update_model", model, r)
        /\ UNCHANGED <<ending, clock, nextId, dsTable, runTable>>

DeleteModel ==
    /\ last.op = "idle"
    /\ \E model_name \in ModelKeys, k \in RespKinds :
        /\ LET r == delete_model(modelTable, model_name, k)
           IN  /\ modelTable' = r.tbl
               /\ last' = Done("delete_model", model_name, r)
        /\ UNCHANGED <<ending, clock, nextId, dsTable, runTable>>

ListModels ==
    /\ last.op = "idle"
    /\ \E k \in RespKinds :
        /\ last' = Done("list_models", <<>>, list_models(modelTable, k))
        /\ UNCHANGED <<ending, clock, nextId, dsTable, runTable, modelTable>>

ModelBatchGet ==
    /\ last.op = "idle"
    /\ \E names \in SeqsUpTo(ModelBatchNames, MaxBatch) : \E resp \in [1..Len(names) -> RespKinds] :
        /\ last' = Done("Model_batch_get", names, Model_batch_get(modelTable, names, resp))
        /\ UNCHANGED <<ending, clock, nextId, dsTable, runTable, modelTable>>

NextDataset ==
    \/ AddDataset
    \/ GetDataset
    \/ GetDatasetId
    \/ DeleteDataset
    \/ DatasetBatchGet
    \/ DatasetBatchCreate
    \/ DatasetBatchDelete
    \/ Continue

SpecDataset == Init /\ [][NextDataset]_vars

NextRun ==
    \/ AddRun
    \/ GetRun
    \/ GetRunId
    \/ UpdateRun
    \/ EndRun
    \/ DeleteRun
    \/ Tick
    \/ Continue

SpecRun == Init /\ [][NextRun]_vars

NextModel ==
    \/ AddModel
    \/ GetModel
    \/ UpdateModel
    \/ DeleteModel
    \/ ListModels
    \/ ModelBatchGet
    \/ Continue

SpecModel == Init /\ [][NextModel]_vars

\* the batch operations of the Run repository over the runs add_run stores
NextRunBatch ==
    \/ AddRun
    \/ RunBatchGet
    \/ RunBatchCreate
    \/ Tick
    \/ Continue

SpecRunBatch == Init /\ [][NextRunBatch]_vars

\* the keyed writes of the Run and Model repositories (add, update, delete)
NextKeyed ==
    \/ AddRun
    \/ UpdateRun
    \/ DeleteRun
    \/ AddModel
    \/ UpdateModel
    \/ DeleteModel
    \/ Continue

SpecKeyed == Init /\ [][NextKeyed]_vars

----------------------------------------------------------------------------
(* end_run called by two callers at once: the remote calls of one call are
   sequential, the calls of different callers interleave at their remote calls *)

EndRunFetch(c) ==
    /\ last.op = "idle"
    /\ ending[c].phase = "none"
    /\ \E run_name \in RunKeys, k1 \in RespKinds :
        LET r == end_run_fetch(runTable, run_name, k1)
        IN  ending' = [ending EXCEPT ![c] =
                          [phase |-> IF r.exc = "none" THEN "fetched" ELSE "done",
                           run_name |-> run_name, exc |-> r.exc, msg |-> r.msg,
                           calls |-> r.calls]]
    /\ UNCHANGED <<clock, nextId, dsTable, runTable, modelTable, last>>

EndRunWrite(c) ==
    /\ last.op = "idle"
    /\ ending[c].phase = "fetched"
    /\ \E k2 \in RespKinds :
        LET r == end_run_write(runTable, ending[c].run_name, clock, k2)
        IN  /\ runTable' = r.tbl
            /\ ending' = [ending EXCEPT ![c] =
                             [phase |-> "done", run_name |-> ending[c].run_name,
                              exc |-> r.exc, msg |-> r.msg,
                              calls |-> ending[c].calls \o r.calls]]
    /\ UNCHANGED <<clock, nextId, dsTable, modelTable, last>>

NextEndRace ==
    \/ AddRun
    \/ Continue
    \/ \E c \in Callers : EndRunFetch(c)
    \/ \E c \in Callers : EndRunWrite(c)

SpecEndRace == Init /\ [][NextEndRace]_vars

----------------------------------------------------------------------------
(* core: a caller constructing entities and converting them to records and back *)

\* a value of a type other than dict (a list)
NotADict == <<"list">>

NewDataset ==
    /\ last.op = "idle"
    /\ \E name \in {"a", "", None}, version \in {"1", "", None},
          source \in {DataSource, "", None}, actor \in {Alice, "", None},
          description \in {None, "text"} :
        last' = Done("Dataset", Dataset(name, version, source, actor, description),
                     Dataset_init(name, version, source, actor, description))
    /\ UNCHANGED <<ending, clock, nextId, dsTable, runTable, modelTable>>

NewRun ==
    /\ last.op = "idle"
    /\ \E dataset_id \in {"dataset_1", "", None}, run_name \in {"r1", "", None},
          actor \in {Alice, "", None},
          parameters \in {Params, EmptyDict, NotADict, NoValue},
          start_time \in CallerTimes \cup {NoValue},
          end_time \in CallerTimes \cup {NoValue},
          metrics \in {Metrics, NoValue} :
        last' = Done("Run",
                     RunFields(dataset_id, run_name, actor, parameters, start_time,
                               "abc123", metrics, end_time),
                     Run_init(dataset_id, run_name, actor, parameters, start_time,
                              "abc123", metrics, end_time))
    /\ UNCHANGED <<ending, clock, nextId, dsTable, runTable, modelTable>>

NewModel ==
    /\ last.op = "idle"
    /\ \E artifact_uri \in {"s3://b/model.pkl", "", None}, model_name \in {"m1", "", None},
          associated_run_id \in {"run_1", "", None},
          lifecycle_stage \in ALLOWED_STAGES \cup {"deployed", "", None} :
        last' = Done("Model",
                     Model(artifact_uri, model_name, associated_run_id, lifecycle_stage),
                     Model_init(artifact_uri, model_name, associated_run_id, lifecycle_stage))
    /\ UNCHANGED <<ending, clock, nextId, dsTable, runTable, modelTable>>

\* Dataset.from_record(dataset.to_record())
DatasetRoundTrip ==
    /\ last.op = "idle"
    /\ \E e \in DatasetInputs :
        LET d == Dataset_from_record(Dataset_to_record(e))
        IN  last' = Done("Dataset_round_trip", e,
                         Dataset_init(d.name, d.version, d.source, d.actor, d.description))
    /\ UNCHANGED <<ending, clock, nextId, dsTable, runTable, modelTable>>

\* Run.from_record(run.to_record())
RunRoundTrip ==
    /\ last.op = "idle"
    /\ \E e \in RunInputs :
        LET r == Run_from_record(Run_to_record(e))
        IN  last' = Done("Run_round_trip", e,
                         Run_init(r.dataset_id, r.run_name, r.actor, r.parameters, r.start_time,
                                  r.code_reference, r.metrics, r.end_time))
    /\ UNCHANGED <<ending, clock, nextId, dsTable, runTable, modelTable>>

\* Model.from_record(model.to_record())
ModelRoundTrip ==
    /\ last.op = "idle"
    /\ \E e \in ModelInputs :
        last' = Done("Model_round_trip", e, Model_from_record(Model_to_record(e)))
    /\ UNCHANGED <<ending, clock, nextId, dsTable, runTable, modelTable>>

NextEntity ==
    \/ NewDataset
    \/ NewRun
    \/ NewModel
    \/ DatasetRoundTrip
    \/ RunRoundTrip
    \/ ModelRoundTrip
    \/ Continue

SpecEntity == Init /\ [][NextEntity]_vars

\* the three repositories used together: rows that reference rows of another table
NextLineage ==
    \/ AddDataset
    \/ DeleteDataset
    \/ AddRun
    \/ DeleteRun
    \/ AddModel
    \/ Continue

SpecLineage == Init /\ [][NextLineage]_vars

\* the three repositories over one store
Next == NextDataset \/ NextRun \/ NextRunBatch \/ NextModel \/ NextKeyed \/ NextEntity \/ NextLineage \/ NextEndRace

Spec == Init /\ [][Next]_vars

----------------------------------------------------------------------------
(* Properties *)

Empty(s) == s \in {"", None}

\* the row of the new table with the identifier of row, if it is still there
SameRowIn(table, idcol, row) ==
    SelectSeq(table, LAMBDA other : other[idcol] = row[idcol])

AllOk(calls) == \A i \in 1..Len(calls) : calls[i].resp = "ok"

\* C1: over add_run, update_run, end_run and delete_run, the end_time of a stored
\* run changes only from null to a timestamp, only by end_run, and never again
\* while the row exists.
C1_EndTimeOneWay ==
    [][\A i \in 1..Len(runTable) :
          LET after == SameRowIn(runTable', "run_id", runTable[i])
          IN  (after # <<>> /\ after[1].end_time # runTable[i].end_time)
                  => /\ runTable[i].end_time = NoValue
                     /\ after[1].end_time # NoValue
                     /\ last'.op = "end_run"]_vars

\* the run get_run reads for a name: the first row with that name
FirstRun(table, run_name) == SelectSeq(table, LAMBDA row : row.name = run_name)

\* C2: for a stored run whose end_time is null, end_run succeeds and the next
\* get_run returns the run with a non-null end_time >= start_time; for a stored
\* run whose end_time is set, end_run raises ValueError "Run has already been
\* ended", issues no update and leaves the table unchanged.
C2_EndRunThenGet ==
    [][(/\ last'.op = "end_run"
        /\ AllOk(last'.calls)
        /\ FirstRun(runTable, last'.arg) # <<>>)
       => IF FirstRun(runTable, last'.arg)[1].end_time = NoValue
          THEN /\ last'.exc = "none"
               /\ LET got == get_run(runTable', last'.arg, "ok")
                  IN  /\ got.exc = "none"
                      /\ got.ret # <<>>
                      /\ got.ret[1].end_time # NoValue
                      /\ got.ret[1].end_time[2] >= got.ret[1].start_time[2]
          ELSE /\ last'.exc = "ValueError"
               /\ last'.msg = <<"Run has already been ended", "">>
               /\ \A i \in 1..Len(last'.calls) : last'.calls[i].verb # "update"
               /\ runTable' = runTable]_vars

\* end_run was called with a non-empty name no stored row has, and the fetch was answered
EndRunOfMissing ==
    /\ last.op = "end_run"
    /\ ~Empty(last.arg)
    /\ Len(last.calls) >= 1
    /\ last.calls[1].resp = "ok"
    /\ \A i \in 1..Len(runTable) : runTable[i].name # last.arg

\* C3 as stated: end_run of a name that matches no row raises ValueError, the
\* error kind of the already-ended case, and issues no update.
C3_MissingIsValueError ==
    EndRunOfMissing
        => /\ last.exc = "ValueError"
           /\ \A i \in 1..Len(last.calls) : last.calls[i].verb # "update"

\* C3 amended: end_run of a name that matches no row raises RuntimeError "Run not
\* found", not the ValueError of the already-ended case, and issues no update.
C3_MissingIsRuntimeError ==
    EndRunOfMissing
        => /\ last.exc = "RuntimeError"
           /\ last.msg = <<"Run not found", "">>
           /\ Len(last.calls) = 1
           /\ last.calls[1].verb = "select"

C3_Witness ==
    /\ EndRunOfMissing
    /\ last.arg = "r2"
    /\ last.exc = "RuntimeError"
    /\ Len(runTable) >= 1

\* C4: a successful add_run inserts exactly one record into table Run; its
\* start_time is the wall-clock time of the insertion whatever the caller
\* supplied, and every other field is the one of run.to_record().
C4_AddRunStampsStart ==
    [][(/\ last'.op = "add_run"
        /\ last'.exc = "none"
        /\ AllOk(last'.calls))
       => /\ Len(last'.calls) = 1
          /\ last'.calls[1].verb = "insert"
          /\ last'.calls[1].table = "Run"
          /\ Len(runTable') = Len(runTable) + 1
          /\ SubSeq(runTable', 1, Len(runTable)) = runTable
          /\ LET row == runTable'[Len(runTable')]
                 record == Run_to_record(last'.arg)
             IN  /\ row.start_time = <<"str", clock>>
                 /\ \A col \in DOMAIN record \ {"start_time"} : row[col] = record[col]
                 /\ DOMAIN row = DOMAIN record \cup {"run_id"}]_vars

C4_Witness ==
    /\ last.op = "add_run"
    /\ last.exc = "none"
    /\ AllOk(last.calls)
    /\ runTable # <<>>
    /\ last.arg.start_time[2] > clock
    /\ last.arg.end_time # NoValue
    /\ runTable[Len(runTable)].start_time = <<"str", clock>>

\* C5: for a valid dataset d and a store with no row of key (d.name, d.version),
\* after add_dataset(d) get_dataset(d.name, d.version) returns a dataset with d's
\* name, version, source, actor and description.
C5_AddThenGet ==
    [][(/\ last'.op = "add_dataset"
        /\ last'.exc = "none"
        /\ AllOk(last'.calls)
        /\ \A i \in 1..Len(dsTable) :
              ~(dsTable[i].name = last'.arg.name /\ dsTable[i].version = last'.arg.version))
       => LET d == last'.arg
              got == get_dataset(dsTable', d.name, d.version, "ok")
          IN  /\ got.exc = "none"
              /\ Len(got.ret) = 1
              /\ got.ret[1].name = d.name
              /\ got.ret[1].version = d.version
              /\ got.ret[1].source = d.source
              /\ got.ret[1].actor = d.actor
              /\ got.ret[1].description = d.description]_vars

C5_Witness ==
    /\ last.op = "add_dataset"
    /\ last.exc = "none"
    /\ AllOk(last.calls)
    /\ last.arg.description = None
    /\ Len(dsTable) = 2
    /\ dsTable[1].name = last.arg.name
    /\ dsTable[1].version # last.arg.version
    /\ get_dataset(dsTable, last.arg.name, last.arg.version, "ok").ret = <<last.arg>>

\* a (name, version) pair given to a delete names the row
DeletedBy(op, arg, row) ==
    \/ op = "delete_dataset" /\ arg = <<row.name, row.version>>
    \/ op = "Dataset_batch_delete"
          /\ \E k \in 1..Len(arg) : arg[k] = <<row.name, row.version>>

\* C6: no DatasetRepository operation modifies a stored row: a row keeps the
\* values it was inserted with until a delete for its (name, version) removes it.
C6_RowsImmutable ==
    [][\A i \in 1..Len(dsTable) :
          LET after == SameRowIn(dsTable', "dataset_id", dsTable[i])
          IN  IF after = <<>>
              THEN DeletedBy(last'.op, last'.arg, dsTable[i])
              ELSE after = <<dsTable[i]>>]_vars

C6_Witness ==
    /\ last.op = "add_dataset"
    /\ last.exc = "none"
    /\ Len(dsTable) = 2
    /\ dsTable[1].name = dsTable[2].name
    /\ dsTable[1].version = dsTable[2].version
    /\ dsTable[1].description # dsTable[2].description

ErrorFieldOps ==
    {"get_dataset", "delete_dataset", "get_model", "update_model", "delete_model",
     "list_models", "get_run", "delete_run"}

ErrorPrefix(op) ==
    CASE op = "get_dataset" -> "Error retrieving dataset: "
      [] op = "delete_dataset" -> "Error deleting dataset: "
      [] op = "get_model" -> "Failed to retrieve model: "
      [] op = "update_model" -> "Failed to update model: "
      [] op = "delete_model" -> "Failed to delete model: "
      [] op = "list_models" -> "Failed to list models: "
      [] op = "get_run" -> "Error retrieving run: "
      [] op = "delete_run" -> "Error deleting run: "

\* C7: when the store's response carries a non-null error field (data null),
\* get_dataset, delete_dataset, get_model, update_model, delete_model,
\* list_models, get_run and delete_run raise RuntimeError whose message is the
\* operation's prefix followed by the error's message.
C7_ErrorFieldRaises ==
    (/\ last.op \in ErrorFieldOps
     /\ Len(last.calls) = 1
     /\ last.calls[1].resp = "error_field")
        => /\ last.exc = "RuntimeError"
           /\ last.msg = <<ErrorPrefix(last.op), ErrText>>

\* C8: if a remote call of an operation raises, the operation raises
\* RuntimeError, never another exception type, and issues no further remote call.
C8_FailureIsRuntimeError ==
    \A i \in 1..Len(last.calls) :
        Raises(last.calls[i].resp)
            => /\ last.exc = "RuntimeError"
               /\ i = Len(last.calls)

\* C9: delete_dataset with an empty or None name or version raises ValueError
\* without a remote call and leaves the store unchanged; otherwise it removes
\* exactly the rows whose name and version both match and returns their number,
\* 0 without raising when there is none.
C9_DeleteDataset ==
    [][last'.op = "delete_dataset"
       => LET name == last'.arg[1]
              version == last'.arg[2]
              matching == {i \in 1..Len(dsTable) :
                              dsTable[i].name = name /\ dsTable[i].version = version}
          IN  IF Empty(name) \/ Empty(version)
              THEN /\ last'.exc = "ValueError"
                   /\ last'.calls = <<>>
                   /\ dsTable' = dsTable
              ELSE AllOk(last'.calls)
                      => /\ last'.exc = "none"
                         /\ Len(last'.calls) = 1
                         /\ last'.ret = <<Cardinality(matching)>>
                         /\ Len(dsTable') = Len(dsTable) - Cardinality(matching)
                         /\ \A i \in 1..Len(dsTable) :
                               i \notin matching
                                  => dsTable'[i - Cardinality({j \in matching : j < i})]
                                        = dsTable[i]]_vars

C9_Witness ==
    /\ last.op = "delete_dataset"
    /\ last.exc = "none"
    /\ AllOk(last.calls)
    /\ last.ret = <<0>>
    /\ Len(last.calls) = 1
    /\ ~Empty(last.arg[1])
    /\ ~Empty(last.arg[2])
    /\ \E i \in 1..Len(dsTable) : dsTable[i].name = last.arg[1]

ValidPairs(pairs) == SelectSeq(pairs, LAMBDA pair : ~Empty(pair[1]) /\ ~Empty(pair[2]))

\* the first stored row of a key, as the entity its five fields make
FirstDataset(table, pair) ==
    LET idx == {i \in 1..Len(table) : table[i].name = pair[1] /\ table[i].version = pair[2]}
        first == CHOOSE i \in idx : \A j \in idx : i <= j
    IN  IF idx = {} THEN <<>>
        ELSE <<[name |-> table[first].name, version |-> table[first].version,
                source |-> table[first].source, actor |-> table[first].actor,
                description |-> table[first].description]>>

RECURSIVE Found(_, _, _, _)
Found(table, valid, calls, i) ==
    IF i > Len(valid) THEN <<>>
    ELSE (IF calls[i].resp = "ok" THEN FirstDataset(table, valid[i]) ELSE <<>>)
            \o Found(table, valid, calls, i + 1)

\* C10: DatasetRepository.batch_get issues one get per pair with a non-empty name
\* and version, in input order, and no remote call for any other pair; it
\* returns (datasets, count) with the non-absent results in input order and
\* count = len(datasets).
C10_BatchGet ==
    last.op = "Dataset_batch_get"
        => LET valid == ValidPairs(last.arg)
           IN  /\ Len(last.calls) <= Len(valid)
               /\ \A i \in 1..Len(last.calls) :
                     /\ last.calls[i].verb = "select"
                     /\ last.calls[i].table = "Dataset"
                     /\ last.calls[i].filt
                           = <<<<"name", valid[i][1]>>, <<"version", valid[i][2]>>>>
               /\ last.exc = "none"
                     => /\ Len(last.calls) = Len(valid)
                        /\ last.ret.datasets = Found(dsTable, valid, last.calls, 1)
                        /\ last.ret.count = Len(last.ret.datasets)

C10_Witness ==
    /\ last.op = "Dataset_batch_get"
    /\ last.arg = << <<"", "2">>, <<"a", "1">> >>
    /\ last.exc = "none"
    /\ Len(last.calls) = 1
    /\ last.ret.count = 1
    /\ last.ret.datasets[1].name = "a"

\* the rows a list of records adds to a table: in list order, after the old rows
AppendsInOrder(old, new, records) ==
    /\ Len(new) = Len(old) + Len(records)
    /\ SubSeq(new, 1, Len(old)) = old
    /\ \A i \in 1..Len(records) :
          \A col \in DOMAIN records[i] : new[Len(old) + i][col] = records[i][col]

RECURSIVE Survivors(_, _, _, _)
Survivors(table, valid, calls, i) ==
    IF i > Len(calls) THEN table
    ELSE Survivors(IF calls[i].resp = "ok"
                   THEN SelectSeq(table, LAMBDA row :
                            ~(row.name = valid[i][1] /\ row.version = valid[i][2]))
                   ELSE table,
                   valid, calls, i + 1)

\* C12: DatasetRepository.batch_delete(pairs) returns the sum of the per-pair
\* delete counts, which is the number of rows the call removed from the Dataset
\* table (a pair listed twice contributes its rows once); pairs with an empty
\* name or version cause no remote call and contribute 0.
C12_BatchDeleteCount ==
    [][last'.op = "Dataset_batch_delete"
       => LET valid == ValidPairs(last'.arg)
              calls == last'.calls
          IN  /\ Len(calls) <= Len(valid)
              /\ \A i \in 1..Len(calls) :
                    /\ calls[i].verb = "delete"
                    /\ calls[i].table = "Dataset"
                    /\ calls[i].filt
                          = <<<<"name", valid[i][1]>>, <<"version", valid[i][2]>>>>
              /\ dsTable' = Survivors(dsTable, valid, calls, 1)
              /\ last'.exc = "none"
                    => /\ Len(calls) = Len(valid)
                       /\ last'.ret = <<Len(dsTable) - Len(dsTable')>>]_vars

C12_Witness ==
    /\ last.op = "Dataset_batch_delete"
    /\ last.arg = << <<"a", "1">>, <<"a", "1">> >>
    /\ last.exc = "none"
    /\ AllOk(last.calls)
    /\ Len(last.calls) = 2
    /\ last.ret = <<2>>
    /\ dsTable = <<>>

\* the first stored row of a model name, as the entity its four fields make
FirstModel(table, model_name) ==
    LET rows == SelectSeq(table, LAMBDA row : row.model_name = model_name)
    IN  IF rows = <<>> THEN <<>>
        ELSE <<[artifact_uri |-> rows[1].artifact_uri, model_name |-> rows[1].model_name,
                associated_run_id |-> rows[1].associated_run_id,
                lifecycle_stage |-> rows[1].lifecycle_stage]>>

\* C13: get_model(name) for a non-empty name returns a Model with the
\* artifact_uri, model_name, associated_run_id and lifecycle_stage of the stored
\* row of that name, and None when no row matches.
C13_GetModelReturnsRow ==
    (/\ last.op = "get_model"
     /\ ~Empty(last.arg)
     /\ Len(last.calls) = 1
     /\ AllOk(last.calls))
        => /\ last.exc = "none"
           /\ last.ret = FirstModel(modelTable, last.arg)

RECURSIVE FoundModels(_, _, _)
FoundModels(table, names, i) ==
    IF i > Len(names) THEN <<>>
    ELSE (IF Empty(names[i]) THEN <<>> ELSE FirstModel(table, names[i]))
            \o FoundModels(table, names, i + 1)

\* C17: ModelRepository.batch_get(names) raises ValueError "Model names must be
\* strings" when an entry is not a string; with string entries only it skips the
\* empty ones and the names with no stored row and returns the models found, in
\* input order.
C17_BatchGetModels ==
    (/\ last.op = "Model_batch_get"
     /\ AllOk(last.calls))
        => IF \E i \in 1..Len(last.arg) : ~IsString(last.arg[i])
           THEN /\ last.exc = "ValueError"
                /\ last.msg = <<"Model names must be strings", "">>
           ELSE /\ last.exc = "none"
                /\ last.ret = <<FoundModels(modelTable, last.arg, 1)>>

\* C14: update_model(m) and update_run(r) overwrite every column of the row keyed
\* by the entity's model_name / run name with the entity's record; when no row has
\* that key they raise RuntimeError ("No model found to update" / "No run found to
\* update") and the store is unchanged.
C14_UpdateOverwrites ==
    [][(/\ last'.op \in {"update_run", "update_model"}
        /\ Len(last'.calls) = 1
        /\ AllOk(last'.calls))
       => LET isRun == last'.op = "update_run"
              record == IF isRun THEN Run_to_record(last'.arg) ELSE Model_to_record(last'.arg)
              keycol == IF isRun THEN "name" ELSE "model_name"
              idcol == IF isRun THEN "run_id" ELSE "model_id"
              old == IF isRun THEN runTable ELSE modelTable
              new == IF isRun THEN runTable' ELSE modelTable'
              matching == {i \in 1..Len(old) : old[i][keycol] = record[keycol]}
          IN  IF matching = {}
              THEN /\ last'.exc = "RuntimeError"
                   /\ last'.msg = <<IF isRun THEN "No run found to update"
                                    ELSE "No model found to update", "">>
                   /\ new = old
              ELSE /\ last'.exc = "none"
                   /\ Len(new) = Len(old)
                   /\ \A i \in 1..Len(old) :
                         IF i \in matching
                         THEN /\ \A col \in DOMAIN record : new[i][col] = record[col]
                              /\ DOMAIN new[i] = DOMAIN record \cup {idcol}
                              /\ new[i][idcol] = old[i][idcol]
                         ELSE new[i] = old[i]]_vars

C14_Witness ==
    /\ last.op = "update_run"
    /\ last.exc = "none"
    /\ AllOk(last.calls)
    /\ Len(runTable) = 2
    /\ runTable[1].name = "r1"
    /\ runTable[2].name = "r2"
    /\ last.arg.run_name = "r1"
    /\ runTable[1].start_time # <<"str", clock>>
    /\ runTable[1].end_time = <<"str", MaxClock>>

C16_DeleteRunReturnsCount ==
    [][(/\ last'.op = "delete_run"
        /\ Len(last'.calls) = 1
        /\ AllOk(last'.calls))
       => /\ last'.exc = "none"
          /\ last'.ret = <<Len(runTable) - Len(runTable')>>]_vars

\* the filter a Run operation puts on its remote calls
RunFilterOps == {"get_run", "update_run", "end_run", "delete_run"}

RunNameOf(op, arg) == IF op = "update_run" THEN arg.run_name ELSE arg

\* C20: RunRepository addresses a run by the column run_name: the record add_run
\* inserts carries the run's name under the key run_name, and get_run,
\* update_run, end_run and delete_run filter with eq("run_name", name).
C20_RunNameColumn ==
    /\ last.op = "add_run"
          => \A i \in 1..Len(last.calls) :
                /\ "run_name" \in DOMAIN last.calls[i].payload
                /\ last.calls[i].payload.run_name = last.arg.run_name
    /\ last.op \in RunFilterOps
          => \A i \in 1..Len(last.calls) :
                last.calls[i].filt = <<<<"run_name", RunNameOf(last.op, last.arg)>>>>

\* the runs a list of names finds: for each member with a non-empty name whose
\* lookup the store answers, the first stored row of that name
RECURSIVE FoundRuns(_, _, _, _, _)
FoundRuns(table, names, calls, i, j) ==
    IF i > Len(names) THEN <<>>
    ELSE IF Empty(names[i]) THEN FoundRuns(table, names, calls, i + 1, j)
    ELSE LET rows == FirstRun(table, names[i])
         IN  (IF j <= Len(calls) /\ calls[j].resp = "ok" /\ rows # <<>>
              THEN <<Run_from_record(rows[1])>> ELSE <<>>)
                \o FoundRuns(table, names, calls, i + 1, j + 1)

\* C18: RunRepository.batch_get(names) never aborts because of one member: a
\* member whose lookup fails (a storage failure, or an empty name) is skipped,
\* every other member is still looked up, and the result holds exactly the runs
\* that were found, in input order.
C18_BatchGetNeverAborts ==
    last.op = "Run_batch_get"
        => /\ last.exc = "none"
           /\ Len(last.calls) = Len(SelectSeq(last.arg, LAMBDA name : ~Empty(name)))
           /\ last.ret[1].runs = FoundRuns(runTable, last.arg, last.calls, 1, 1)

\* C19: RunRepository.batch_get returns a pair (runs, count) with
\* count = len(runs) for every input list, empty or not.
C19_BatchGetReturnsPair ==
    (last.op = "Run_batch_get" /\ last.exc = "none")
        => /\ last.ret[1].kind = "tuple"
           /\ last.ret[1].count = Len(last.ret[1].runs)

\* C21: for a stored model and any two stages s, t of the four allowed ones,
\* update_model with a Model of stage t succeeds when the stored stage is s and
\* leaves the stored stage equal to t.
C21_AnyStageTransition ==
    [][(/\ last'.op = "update_model"
        /\ Len(last'.calls) = 1
        /\ AllOk(last'.calls)
        /\ \E i \in 1..Len(modelTable) : modelTable[i].model_name = last'.arg.model_name)
       => /\ last'.exc = "none"
          /\ last'.arg.lifecycle_stage \in ALLOWED_STAGES
          /\ Len(modelTable') = Len(modelTable)
          /\ \A i \in 1..Len(modelTable) :
                /\ modelTable[i].lifecycle_stage \in ALLOWED_STAGES
                /\ modelTable'[i].lifecycle_stage
                      = IF modelTable[i].model_name = last'.arg.model_name
                        THEN last'.arg.lifecycle_stage
                        ELSE modelTable[i].lifecycle_stage]_vars

C21_Witness ==
    /\ last.op = "update_model"
    /\ last.exc = "none"
    /\ AllOk(last.calls)
    /\ last.arg.lifecycle_stage = "registered"
    /\ Len(modelTable) = 2
    /\ modelTable[1].model_name = last.arg.model_name
    /\ modelTable[1].lifecycle_stage = "registered"
    /\ modelTable[2].model_name # last.arg.model_name
    /\ modelTable[2].lifecycle_stage = "archived"

\* C26: get_dataset(name, version) returns the first row, in the order the store
\* returns rows, whose name and version both equal the arguments, and None when
\* no row matches; when the same key was added twice it still returns a single
\* Dataset, the first one.
C26_GetDatasetFirstRow ==
    (/\ last.op = "get_dataset"
     /\ Len(last.calls) = 1
     /\ AllOk(last.calls))
        => /\ last.exc = "none"
           /\ last.ret = FirstDataset(dsTable, last.arg)
           /\ Len(last.ret) <= 1

C26_Witness ==
    /\ last.op = "get_dataset"
    /\ last.exc = "none"
    /\ AllOk(last.calls)
    /\ Len(dsTable) = 2
    /\ dsTable[1].name = last.arg[1] /\ dsTable[1].version = last.arg[2]
    /\ dsTable[2].name = last.arg[1] /\ dsTable[2].version = last.arg[2]
    /\ dsTable[1].description # dsTable[2].description
    /\ Len(last.ret) = 1
    /\ last.ret[1].description = dsTable[1].description

\* C27: a successful end_run(run_name) changes only the end_time column of the
\* rows whose name equals run_name: every other column of those rows and every
\* other row of the Run table are unchanged.
C27_EndRunTouchesEndTimeOnly ==
    [][(/\ last'.op = "end_run"
        /\ last'.exc = "none"
        /\ AllOk(last'.calls))
       => /\ Len(last'.calls) = 2
          /\ last'.calls[2].verb = "update"
          /\ DOMAIN last'.calls[2].payload = {"end_time"}
          /\ Len(runTable') = Len(runTable)
          /\ \A i \in 1..Len(runTable) :
                IF runTable[i].name = last'.arg
                THEN /\ DOMAIN runTable'[i] = DOMAIN runTable[i]
                     /\ \A col \in DOMAIN runTable[i] \ {"end_time"} :
                           runTable'[i][col] = runTable[i][col]
                     /\ runTable'[i].end_time = <<"str", clock>>
                ELSE runTable'[i] = runTable[i]]_vars

C27_Witness ==
    /\ last.op = "end_run"
    /\ last.exc = "none"
    /\ AllOk(last.calls)
    /\ Len(runTable) = 2
    /\ runTable[1].name = last.arg
    /\ runTable[2].name # last.arg
    /\ runTable[1].end_time = <<"str", clock>>
    /\ runTable[1].start_time[2] < clock
    /\ runTable[2].end_time = NoValue

\* C28: every row that add_run, update_run or end_run leaves in the Run table can
\* be read back: each stored row has end_time null or end_time >= start_time.
C28_StoredRunsReadable ==
    \A i \in 1..Len(runTable) :
        \/ runTable[i].end_time = NoValue
        \/ runTable[i].end_time[2] >= runTable[i].start_time[2]

RECURSIVE ModelsOf(_, _)
ModelsOf(table, i) ==
    IF i > Len(table) THEN <<>>
    ELSE <<[artifact_uri |-> table[i].artifact_uri, model_name |-> table[i].model_name,
            associated_run_id |-> table[i].associated_run_id,
            lifecycle_stage |-> table[i].lifecycle_stage]>> \o ModelsOf(table, i + 1)

\* C30: list_models returns the empty list whenever the store returns no rows,
\* whether the response's data is an empty sequence or null, and otherwise
\* returns one Model per returned row in row order.
C30_ListModels ==
    (/\ last.op = "list_models"
     /\ Len(last.calls) = 1
     /\ ~Raises(last.calls[1].resp))
        => /\ last.exc = "none"
           /\ last.ret = <<IF last.calls[1].resp = "ok" THEN ModelsOf(modelTable, 1) ELSE <<>> >>

\* the required fields of an entity that are missing, empty or (parameters) not
\* a mapping, (lifecycle_stage) not an allowed stage
MissingFields(op, e) ==
    CASE op = "Dataset" -> {f \in {"name", "version", "source", "actor"} : Falsy(e[f])}
      [] op = "Run" ->
            {f \in {"dataset_id", "run_name", "actor"} : Falsy(e[f])}
            \cup (IF IsDict(e.parameters) THEN {} ELSE {"parameters"})
            \cup (IF e.start_time = NoValue THEN {"start_time"} ELSE {})
      [] op = "Model" ->
            {f \in {"artifact_uri", "model_name", "associated_run_id"} : Falsy(e[f])}
            \cup (IF e.lifecycle_stage \in ALLOWED_STAGES THEN {} ELSE {"lifecycle_stage"})

\* what the message of a field's ValueError calls the field
FieldMessage(op, f) ==
    CASE op = "Dataset" /\ f = "name" -> "Name is required"
      [] op = "Dataset" /\ f = "version" -> "Version is required"
      [] op = "Dataset" /\ f = "source" -> "Source is required"
      [] op = "Dataset" /\ f = "actor" -> "Actor is required"
      [] op = "Run" /\ f = "dataset_id" -> "Dataset is required"
      [] op = "Run" /\ f = "run_name" -> "Run name is required"
      [] op = "Run" /\ f = "actor" -> "Actor is required"
      [] op = "Run" /\ f = "parameters" -> "Parameters are required"
      [] op = "Run" /\ f = "start_time" -> "Start time is required"
      [] op = "Model" /\ f = "artifact_uri" -> "Artifact URI is required"
      [] op = "Model" /\ f = "model_name" -> "Model name is required"
      [] op = "Model" /\ f = "associated_run_id" -> "Associated run is required"
      [] op = "Model" /\ f = "lifecycle_stage" -> "Invalid lifecycle stage"

\* the end_time of a Run's fields is absent or not earlier than its start_time
TimeOrderOk(e) == e.end_time = NoValue \/ e.end_time[2] >= e.start_time[2]

\* C22: constructing a Dataset, Run or Model succeeds for every combination of
\* valid fields and produces the instance with those fields; when exactly one
\* required field is missing or empty (for Model also a lifecycle_stage outside
\* the four allowed values) construction raises ValueError with the message that
\* names that field, and no instance is produced.
C22_ConstructionValidates ==
    last.op \in {"Dataset", "Run", "Model"}
        => LET missing == MissingFields(last.op, last.arg)
           IN  /\ (missing = {} /\ (last.op = "Run" => TimeOrderOk(last.arg)))
                    => /\ last.exc = "none"
                       /\ Len(last.ret) = 1
                       /\ \A f \in DOMAIN last.arg :
                            f = "metrics" \/ last.ret[1][f] = last.arg[f]
               /\ \A f \in missing :
                    missing = {f}
                        => /\ last.exc = "ValueError"
                           /\ last.msg = <<FieldMessage(last.op, f), "">>
                           /\ last.ret = <<>>

C22_Witness ==
    /\ last.op = "Model"
    /\ last.arg.lifecycle_stage = "deployed"
    /\ MissingFields("Model", last.arg) = {"lifecycle_stage"}
    /\ last.exc = "ValueError"
    /\ last.msg = <<"Invalid lifecycle stage", "">>
    /\ last.ret = <<>>

\* C23: Run construction with otherwise valid fields fails with ValueError
\* whenever end_time < start_time, succeeds when end_time = start_time and when
\* end_time is absent; when metrics is omitted the constructed run's metrics is
\* the empty mapping.
C23_RunTimeOrder ==
    (last.op = "Run" /\ MissingFields("Run", last.arg) = {})
        => IF last.arg.end_time # NoValue /\ last.arg.end_time[2] < last.arg.start_time[2]
           THEN /\ last.exc = "ValueError"
                /\ last.msg = <<"End time must be greater than start time", "">>
                /\ last.ret = <<>>
           ELSE /\ last.exc = "none"
                /\ Len(last.ret) = 1
                /\ last.ret[1].end_time = last.arg.end_time
                /\ last.ret[1].start_time = last.arg.start_time
                /\ last.ret[1].metrics
                      = IF last.arg.metrics = NoValue THEN EmptyDict ELSE last.arg.metrics

C23_Witness ==
    /\ last.op = "Run"
    /\ last.exc = "none"
    /\ last.arg.start_time = DateTime(1)
    /\ last.arg.end_time = DateTime(1)
    /\ last.arg.metrics = NoValue
    /\ Len(last.ret) = 1
    /\ last.ret[1].metrics = EmptyDict
    /\ last.ret[1].end_time = last.ret[1].start_time

\* C24: for every valid Dataset, Run and Model e, from_record(to_record(e)) has
\* the same value as e in every field.
C24_RecordRoundTrip ==
    last.op \in {"Dataset_round_trip", "Run_round_trip", "Model_round_trip"}
        => /\ last.exc = "none"
           /\ last.ret = <<last.arg>>

\* the text a Model carries in associated_run_id to name the Run row with identifier id
RunRef(id) == IF id = 1 THEN "run_1" ELSE IF id = 2 THEN "run_2" ELSE "run_n"

\* the table an operation belongs to
TableOf(op) ==
    IF op \in {"add_dataset", "delete_dataset"} THEN DATASET_TABLE
    ELSE IF op \in {"add_run", "delete_run"} THEN RUN_TABLE
    ELSE MODEL_TABLE

\* C25: repository operations on one table never read or change another table:
\* every remote call of an operation names its own table and the other two tables
\* are unchanged; add_run and add_model succeed whether or not the referenced
\* dataset / run exists; delete_dataset and delete_run of stored rows succeed and
\* leave the Run / Model rows that reference the deleted row unchanged.
C25_TablesIndependent ==
    [][last'.op \in {"add_dataset", "delete_dataset", "add_run", "delete_run", "add_model"}
       => /\ \A i \in 1..Len(last'.calls) : last'.calls[i].table = TableOf(last'.op)
          /\ TableOf(last'.op) # DATASET_TABLE => dsTable' = dsTable
          /\ TableOf(last'.op) # RUN_TABLE => runTable' = runTable
          /\ TableOf(last'.op) # MODEL_TABLE => modelTable' = modelTable
          /\ (last'.op = "add_run" /\ Len(last'.calls) = 1 /\ AllOk(last'.calls))
                => /\ last'.exc = "none"
                   /\ Len(runTable') = Len(runTable) + 1
                   /\ runTable'[Len(runTable')].dataset_id = last'.arg.dataset_id
          /\ (last'.op = "add_model" /\ Len(last'.calls) = 1 /\ AllOk(last'.calls))
                => /\ last'.exc = "none"
                   /\ Len(modelTable') = Len(modelTable) + 1
                   /\ modelTable'[Len(modelTable')].associated_run_id = last'.arg.associated_run_id
          /\ (last'.op = "delete_dataset" /\ Len(last'.calls) = 1 /\ AllOk(last'.calls))
                => /\ last'.exc = "none"
                   /\ dsTable' = StoreDelete(dsTable, DatasetKey(last'.arg[1], last'.arg[2]))
          /\ (/\ last'.op = "delete_run" /\ Len(last'.calls) = 1 /\ AllOk(last'.calls)
              /\ \E i \in 1..Len(runTable) : runTable[i].name = last'.arg)
                => /\ last'.exc = "none"
                   /\ runTable' = StoreDelete(runTable, RunKey(last'.arg))]_vars

\* a run whose dataset was deleted after it: a dangling dataset_id
C25_Witness ==
    /\ last.op = "delete_dataset"
    /\ last.exc = "none"
    /\ last.ret = <<1>>
    /\ dsTable = <<>>
    /\ Len(runTable) = 1
    /\ runTable[1].run_id = 2
    /\ runTable[1].dataset_id = DatasetRef(1)

\* caller c's end_run returned, with every remote call answered ok
EndedOk(c) ==
    /\ ending[c].phase = "done"
    /\ ending[c].exc = "none"
    /\ AllOk(ending[c].calls)

\* C29: when two callers run end_run on the same open run with their fetch and
\* update steps interleaved in any order, at most one of them returns success
\* (the other is rejected as already ended).
C29_AtMostOneEnds ==
    ~(/\ EndedOk(1)
      /\ EndedOk(2)
      /\ ending[1].run_name = ending[2].run_name)

\* C29 (amended): a caller of end_run whose fetch comes after an update that set
\* end_time is rejected with ValueError and writes nothing; a caller whose fetch
\* found the run open writes end_time = now() over whatever is stored, so when
\* both callers fetch before either updates both succeed and end_time is written
\* twice.
C29_RejectedOnlyAfterWrite ==
    [][\A c \in Callers :
        /\ (/\ ending[c].phase = "none"
            /\ ending'[c].phase # "none"
            /\ AllOk(ending'[c].calls)
            /\ \E i \in 1..Len(runTable) : runTable[i].name = ending'[c].run_name)
              => IF FirstRun(runTable, ending'[c].run_name)[1].end_time # NoValue
                 THEN /\ ending'[c].phase = "done"
                      /\ ending'[c].exc = "ValueError"
                      /\ runTable' = runTable
                 ELSE /\ ending'[c].phase = "fetched"
                      /\ runTable' = runTable
        /\ (/\ ending[c].phase = "fetched"
            /\ ending'[c].phase = "done"
            /\ AllOk(ending'[c].calls))
              => /\ ending'[c].exc = "none"
                 /\ Len(runTable') = Len(runTable)
                 /\ \A i \in 1..Len(runTable) :
                      IF runTable[i].name = ending[c].run_name
                      THEN runTable'[i] = [runTable[i] EXCEPT !.end_time = <<"str", clock>>]
                      ELSE runTable'[i] = runTable[i]]_vars

\* both callers ended the same run: each fetched it open and each issued its update
C29_Witness ==
    /\ EndedOk(1)
    /\ EndedOk(2)
    /\ ending[1].run_name = "r1"
    /\ ending[2].run_name = "r1"
    /\ Len(ending[1].calls) = 2 /\ ending[1].calls[2].verb = "update"
    /\ Len(ending[2].calls) = 2 /\ ending[2].calls[2].verb = "update"
    /\ Len(runTable) = 1
    /\ runTable[1].name = "r1"
    /\ runTable[1].end_time = ending[2].calls[2].payload.end_time

====
